---- MODULE Spec2Model ----
(***************************************************************************)
(* disks-poweroff: a daemon that polls /proc/diskstats, classifies every   *)
(* tracked disk as changed/unchanged, keeps a per-disk state               *)
(* ACTIVE / IDLE / POWEROFF with a timestamp, and puts disks that were     *)
(* idle for `timeout` seconds into standby (smartctl -n standby, then      *)
(* hdparm -yY).                                                            *)
(*                                                                         *)
(* The repository holds two copies of the program:                         *)
(*   src/src/disks-poweroff.py   the current program  (legacy = FALSE)     *)
(*   src/disks-poweroff.py       the older script     (legacy = TRUE)      *)
(* Both are modelled; the variable `legacy` says which one is running.     *)
(*                                                                         *)
(* Python strings are sequences of one-character strings, dictionaries are *)
(* functions whose DOMAIN is the set of keys, lists are sequences.         *)
(***************************************************************************)
EXTENDS Integers, Sequences, FiniteSets, TLC

\* ------------------------------------------------------------------ bounds
\* the clock stops being advanced once it would pass MaxTime
MaxTime == 4
\* a sleep may overrun the polling interval by up to MaxJitter seconds
\* (scheduling delay, time spent in the external commands)
MaxJitter == 1

\* --------------------------------------------------------------- constants
DEFAULT_TIMEOUT == 1800
DEFAULT_POLLING_INTERVAL == 10
LEGACY_DEFAULT_POLLING_INTERVAL == 5
\* smartctl -n standby exits with 2 when the disk sleeps
STANDBY_RC == 2

PROGRAM_NAME == "disks-poweroff"
DEVICES == "devices"
TIMEOUT == "timeout"
POLLING_INTERVAL == "polling_interval"

ACTIVE == "ACTIVE"
IDLE == "IDLE"
POWEROFF == "POWEROFF"

\* ---------------------------------------------------------- python strings
Range(s) == {s[k] : k \in 1..Len(s)}

Whitespace == {" ", "\n", "\t"}

RECURSIVE lstrip(_)
lstrip(s) ==
    IF s = <<>> THEN s
    ELSE IF Head(s) \in Whitespace THEN lstrip(Tail(s)) ELSE s

RECURSIVE rstrip(_)
rstrip(s) ==
    IF s = <<>> THEN s
    ELSE IF s[Len(s)] \in Whitespace THEN rstrip(SubSeq(s, 1, Len(s) - 1)) ELSE s

\* str.strip()
strip(s) == rstrip(lstrip(s))

\* str.split(sep) for a one-character separator: always at least one piece
RECURSIVE split(_, _)
split(s, sep) ==
    IF \E k \in 1..Len(s) : s[k] = sep
    THEN LET k == CHOOSE k \in 1..Len(s) : s[k] = sep /\ \A j \in 1..(k - 1) : s[j] # sep
         IN  <<SubSeq(s, 1, k - 1)>> \o split(SubSeq(s, k + 1, Len(s)), sep)
    ELSE <<s>>

\* re.sub(' +', ' ', line): every run of spaces becomes one space
RECURSIVE collapse_spaces(_)
collapse_spaces(s) ==
    IF Len(s) < 2 THEN s
    ELSE IF s[1] = " " /\ s[2] = " " THEN collapse_spaces(Tail(s))
         ELSE <<s[1]>> \o collapse_spaces(Tail(s))

\* [x for x in seq if x in allowed]
RECURSIVE filter_in(_, _)
filter_in(seq, allowed) ==
    IF seq = <<>> THEN <<>>
    ELSE IF Head(seq) \in allowed THEN <<Head(seq)>> \o filter_in(Tail(seq), allowed)
         ELSE filter_in(Tail(seq), allowed)

Digits == {"0", "1", "2", "3", "4", "5", "6", "7", "8", "9"}
DigitValue(c) ==
    CASE c = "0" -> 0 [] c = "1" -> 1 [] c = "2" -> 2 [] c = "3" -> 3 [] c = "4" -> 4
      [] c = "5" -> 5 [] c = "6" -> 6 [] c = "7" -> 7 [] c = "8" -> 8 [] c = "9" -> 9

RECURSIVE digits_value(_)
digits_value(s) ==
    IF s = <<>> THEN 0 ELSE 10 * digits_value(SubSeq(s, 1, Len(s) - 1)) + DigitValue(s[Len(s)])

\* int(str): surrounding whitespace and one sign are accepted, then digits only;
\* anything else raises ValueError
int(str) ==
    LET s == strip(str)
        signed == s # <<>> /\ Head(s) \in {"+", "-"}
        body == IF signed THEN Tail(s) ELSE s
    IN  IF body = <<>> \/ \E k \in 1..Len(body) : body[k] \notin Digits
        THEN [ValueError |-> TRUE, value |-> 0]
        ELSE [ValueError |-> FALSE,
              value |-> IF Head(s) = "-" THEN 0 - digits_value(body) ELSE digits_value(body)]

\* dict helpers
Put(dict, key, value) ==
    [k \in (DOMAIN dict) \cup {key} |-> IF k = key THEN value ELSE dict[k]]
EmptyDict == <<>>

\* ------------------------------------------------------- the counter source
\* parse_diskstats_line: fields 3, 6 and 10 of the line; a line with fewer
\* than 10 fields raises IndexError
parse_diskstats_line(line) ==
    LET fields == split(strip(collapse_spaces(line)), " ")
    IN  IF Len(fields) < 10
        THEN [IndexError |-> TRUE, device_name |-> <<>>,
              sectors_read |-> <<>>, sectors_written |-> <<>>]
        ELSE [IndexError |-> FALSE, device_name |-> fields[3],
              sectors_read |-> fields[6], sectors_written |-> fields[10]]

\* normalize_name: strip, then keep what follows the last "/"
normalize_name(disk) ==
    LET d == strip(disk)
    IN  IF "/" \in Range(d)
        THEN LET parts == split(d, "/") IN parts[Len(parts)]
        ELSE d

RECURSIVE MapNormalize(_)
MapNormalize(seq) ==
    IF seq = <<>> THEN <<>> ELSE <<normalize_name(Head(seq))>> \o MapNormalize(Tail(seq))

LowerCase == {"a", "b", "c", "d", "e", "f", "g", "h", "i", "j", "k", "l", "m",
              "n", "o", "p", "q", "r", "s", "t", "u", "v", "w", "x", "y", "z"}
\* re.match("[sh]d[a-z]\Z", dev)
is_physical_disk(dev) ==
    /\ Len(dev) = 3
    /\ dev[1] \in {"s", "h"}
    /\ dev[2] = "d"
    /\ dev[3] \in LowerCase

RECURSIVE filter_physical(_)
filter_physical(seq) ==
    IF seq = <<>> THEN <<>>
    ELSE IF is_physical_disk(Head(seq)) THEN <<Head(seq)>> \o filter_physical(Tail(seq))
         ELSE filter_physical(Tail(seq))

\* ------------------------------------------------------------------ inputs
sda == <<"s", "d", "a">>
sdb == <<"s", "d", "b">>
sdc == <<"s", "d", "c">>
sda1 == <<"s", "d", "a", "1">>
vda == <<"v", "d", "a">>
dev_sda == <<"/", "d", "e", "v", "/">> \o sda
dev_sdb == <<"/", "d", "e", "v", "/">> \o sdb
comma == <<",">>
blank == <<" ">>

\* os.listdir('/dev'): two disks, a partition and a virtio disk
DevListings == {<<sda1, sdb, vda, sda>>}

\* sectors-read / sectors-written tokens of one disk at one read
TokenPairs == {<< <<"7">>, <<"4", "0">> >>,
               << <<"8">>, <<"4", "0">> >>,
               << <<"7">>, <<"4", "1">> >>}

\* one line of /proc/diskstats as the kernel prints it
DiskstatsLine(minor, name, tokens) ==
    <<" ", " ", " ", "8", " ", " ", " ", " ", " ", " ", " ">> \o minor \o blank \o name
    \o <<" ", "3", " ", "0", " ">> \o tokens[1] \o <<" ", "9", " ", "5", " ", "1", " ">>
    \o tokens[2] \o <<" ", "6", " ", "0", " ", "2", " ", "2", "\n">>

\* a truncated line: six fields only
ShortLine == <<" ", " ", " ", "8", " ", " ", " ", " ", " ", " ", " ", "0", " ">> \o sda
             \o <<" ", "3", " ", "0", " ", "7", "\n">>

Absent == <<>>
LineOrNone(minor, name, tokens) ==
    IF tokens = Absent THEN <<>> ELSE <<DiskstatsLine(minor, name, tokens)>>

\* what one read of /proc/diskstats can return: sda and sdb each present with
\* some tokens or absent, the partition sda1 always listed
GoodContents ==
    {LineOrNone(<<"0">>, sda, ta)
       \o <<DiskstatsLine(<<"1">>, sda1, << <<"5">>, <<"5">> >>)>>
       \o LineOrNone(<<"1", "6">>, sdb, tb) :
     ta \in TokenPairs \cup {Absent}, tb \in TokenPairs \cup {Absent}}

\* the same with a truncated line between the records
BadContents ==
    {LineOrNone(<<"0">>, sda, ta) \o <<ShortLine>> \o LineOrNone(<<"1", "6">>, sdb, tb) :
     ta \in TokenPairs, tb \in {Absent, << <<"7">>, <<"4", "0">> >>}}

Contents == GoodContents \cup BadContents

\* configuration files: a dict of sections, each a dict of options
Section(devices, timeout_str, polling_str) ==
    [k \in {DEVICES, TIMEOUT, POLLING_INTERVAL} |->
        CASE k = DEVICES -> devices [] k = TIMEOUT -> timeout_str [] OTHER -> polling_str]

Without(dict, key) == [k \in (DOMAIN dict) \ {key} |-> dict[k]]

ConfigOf(section) == [s \in {PROGRAM_NAME} |-> section]

Configs ==
    { \* one disk; sdb is in the counter source but not configured
      ConfigOf(Section(sda, <<"2">>, <<"1">>)),
      \* the same disk named twice
      ConfigOf(Section(sda \o comma \o dev_sda, <<"2">>, <<"1">>)),
      \* two disks, and sdc which /dev does not list
      ConfigOf(Section(blank \o dev_sdb \o blank \o comma \o sda \o comma \o sdc,
                       <<"2">>, <<"1">>)),
      \* no devices option, unparsable timeout, no polling_interval option
      ConfigOf(Without(Without(Section(sda, <<"a", "b", "c">>, <<"1">>), DEVICES),
                       POLLING_INTERVAL)),
      \* no timeout option, unparsable polling_interval
      ConfigOf(Without(Section(sda, <<"2">>, <<"f", "a", "s", "t">>), TIMEOUT)),
      \* a negative polling interval
      ConfigOf(Section(sdb, <<"2">>, <<"-", "1">>)),
      \* no section at all
      EmptyDict }

\* ------------------------------------------------------------------- state
VARIABLES
    legacy,            \* TRUE: src/disks-poweroff.py, FALSE: src/src/disks-poweroff.py
    listing,           \* os.listdir('/dev')
    config,            \* the parsed configuration file
    disks,             \* self.disks
    timeout,           \* self.timeout
    polling_interval,  \* self.polling_interval
    diskstats,         \* self.diskstats
    diskstats_prev,    \* self.diskstats_prev
    disk_states,       \* self.disk_states (self.disk_statuses in the older script)
    now,               \* time.time(), read once per cycle; it moves on in sleep
    pc,                \* where run() is: init, poll, compare, poweroff, sleep, crashed
    verdict,           \* the branch compare() took for each disk in this cycle
    issued,            \* the external commands run in this cycle, in order
    hdparm_failed,     \* disks whose spin-down failed in the previous cycle
    source,            \* the lines poll() read in this cycle, parsed one by one
    events,            \* what the program did in this cycle, in the order of the code
    steady             \* disks whose counters the system no longer changes

vars == <<legacy, listing, config, disks, timeout, polling_interval, diskstats,
          diskstats_prev, disk_states, now, pc, verdict, issued, hdparm_failed,
          source, events, steady>>

\* class DiskState
DiskState(state, timestamp) == [state |-> state, timestamp |-> timestamp]
\* class DiskSectors (a two-element list in the older script)
DiskSectors(sectors_read, sectors_written) ==
    [sectors_read |-> sectors_read, sectors_written |-> sectors_written]

Init ==
    /\ legacy \in BOOLEAN
    /\ listing \in DevListings
    /\ config \in Configs
    /\ disks = <<>>
    /\ timeout = 0
    /\ polling_interval = 0
    /\ diskstats = EmptyDict
    /\ diskstats_prev = EmptyDict
    /\ disk_states = EmptyDict
    /\ now = 0
    /\ pc = "init"
    /\ verdict = EmptyDict
    /\ issued = <<>>
    /\ hdparm_failed = {}
    /\ source = <<>>
    /\ events = <<>>
    /\ steady = {}

\* ------------------------------------------------------------- __init__
possible_devices(dev_listing) == filter_physical(dev_listing)

\* the try/except KeyError around config[PROGRAM_NAME][DEVICES]
configured_disks(cfg, dev_listing) ==
    IF PROGRAM_NAME \in DOMAIN cfg /\ DEVICES \in DOMAIN cfg[PROGRAM_NAME]
    THEN split(strip(cfg[PROGRAM_NAME][DEVICES]), ",")
    ELSE possible_devices(dev_listing)

\* self.disks without the test against the devices present
tracked_disks_unfiltered(cfg, dev_listing) ==
    MapNormalize(configured_disks(cfg, dev_listing))

\* self.disks: the normalized names that /dev lists
tracked_disks(cfg, dev_listing) ==
    filter_in(MapNormalize(configured_disks(cfg, dev_listing)),
              Range(possible_devices(dev_listing)))

\* section.get(option, str(default)) followed by int() with the ValueError fallback
int_option(section, option, default) ==
    IF option \in DOMAIN section
    THEN IF int(section[option]).ValueError THEN default ELSE int(section[option]).value
    ELSE default

default_polling_interval(is_legacy) ==
    IF is_legacy THEN LEGACY_DEFAULT_POLLING_INTERVAL ELSE DEFAULT_POLLING_INTERVAL

\* DisksPowerOff.__init__; config[PROGRAM_NAME].get(...) raises KeyError, which
\* nothing catches, when the section is missing
DisksPowerOff_init ==
    /\ pc = "init"
    /\ disks' = tracked_disks(config, listing)
    /\ IF PROGRAM_NAME \in DOMAIN config
       THEN /\ timeout' = int_option(config[PROGRAM_NAME], TIMEOUT, DEFAULT_TIMEOUT)
            /\ polling_interval' = int_option(config[PROGRAM_NAME], POLLING_INTERVAL,
                                              default_polling_interval(legacy))
            /\ pc' = "poll"
       ELSE /\ pc' = "crashed"
            /\ UNCHANGED <<timeout, polling_interval>>
    /\ UNCHANGED <<legacy, listing, config, diskstats, diskstats_prev, disk_states,
                   now, verdict, issued, hdparm_failed, source, events, steady>>

\* ------------------------------------------------------------------ poll
\* fd.readlines() with parse_diskstats_line applied to every line
RECURSIVE parse_lines(_)
parse_lines(lines) ==
    IF lines = <<>> THEN <<>>
    ELSE <<parse_diskstats_line(Head(lines))>> \o parse_lines(Tail(lines))

\* every read the counter source can return, line by line as the loop of
\* poll() sees it
Reads == {parse_lines(content) : content \in Contents}

\* the for loop of poll(): stops at the first line that raised IndexError
RECURSIVE read_lines(_, _, _)
read_lines(records, tracked, stats) ==
    IF records = <<>> THEN [IndexError |-> FALSE, diskstats |-> stats]
    ELSE LET rec == Head(records)
         IN  IF rec.IndexError THEN [IndexError |-> TRUE, diskstats |-> stats]
             ELSE read_lines(Tail(records), tracked,
                             IF rec.device_name \in tracked
                             THEN Put(stats, rec.device_name,
                                      DiskSectors(rec.sectors_read, rec.sectors_written))
                             ELSE stats)

Event(kind, disk) == [kind |-> kind, disk |-> disk]

\* the assignments to self.diskstats[disk] of the loop of poll(), in order
RECURSIVE read_events(_, _)
read_events(records, tracked) ==
    IF records = <<>> \/ Head(records).IndexError THEN <<>>
    ELSE (IF Head(records).device_name \in tracked
          THEN <<Event("read", Head(records).device_name)>> ELSE <<>>)
         \o read_events(Tail(records), tracked)

FailedSpinDowns(log) ==
    {log[k].disk : k \in {j \in 1..Len(log) : log[j].cmd = "hdparm" /\ log[j].rc # 0}}

\* poll() without "self.diskstats = {}": the entries of earlier reads stay
\* in the current map until a later line overwrites them
poll_keeps_entries ==
    /\ pc = "poll"
    /\ \E records \in Reads :
         LET read == read_lines(records, Range(disks), diskstats)
         IN  /\ diskstats_prev' = diskstats
             /\ diskstats' = read.diskstats
             /\ pc' = IF read.IndexError THEN "crashed" ELSE "compare"
             /\ source' = records
             /\ events' = read_events(records, Range(disks))
    /\ verdict' = EmptyDict
    /\ issued' = <<>>
    /\ hdparm_failed' = FailedSpinDowns(issued)
    /\ UNCHANGED <<legacy, listing, config, disks, timeout, polling_interval,
                   disk_states, now, steady>>

poll ==
    /\ pc = "poll"
    /\ \E records \in Reads :
         LET read == read_lines(records, Range(disks), EmptyDict)
         IN  /\ diskstats_prev' = diskstats
             /\ diskstats' = read.diskstats
             /\ pc' = IF read.IndexError THEN "crashed" ELSE "compare"
             /\ source' = records
             /\ events' = read_events(records, Range(disks))
    /\ verdict' = EmptyDict
    /\ issued' = <<>>
    /\ hdparm_failed' = FailedSpinDowns(issued)
    /\ UNCHANGED <<legacy, listing, config, disks, timeout, polling_interval,
                   disk_states, now, steady>>

\* --------------------------------------------------------------- compare
\* DiskSectors.__eq__ comparing the read counter only
DiskSectors_eq_read_only(a, b) ==
    a.sectors_read = b.sectors_read

\* DiskSectors.__eq__
DiskSectors_eq(a, b) ==
    /\ a.sectors_read = b.sectors_read
    /\ a.sectors_written = b.sectors_written

\* the condition without its test of the previous snapshot: a disk that was
\* not read in the cycle before counts as unchanged
unchanged_no_previous(prev, cur, disk) ==
    /\ disk \in DOMAIN cur
    /\ disk \in DOMAIN prev => DiskSectors_eq(prev[disk], cur[disk])

\* the condition of the if in compare()
unchanged(prev, cur, disk) ==
    /\ disk \in DOMAIN cur
    /\ disk \in DOMAIN prev
    /\ DiskSectors_eq(prev[disk], cur[disk])

\* the older script keeps [sectors_read, sectors_written] lists and compares
\* dict.get(disk, []) of both maps
stats_get(stats, disk) ==
    IF disk \in DOMAIN stats
    THEN <<stats[disk].sectors_read, stats[disk].sectors_written>>
    ELSE <<>>

legacy_unchanged(prev, cur, disk) ==
    /\ stats_get(prev, disk) = stats_get(cur, disk)
    /\ stats_get(cur, disk) # <<>>

\* compare() with "or" for "and" in the inner test of the first branch: every
\* unchanged observation enters IDLE anew
compare_disk_restamps(prev, cur, states, disk, t) ==
    IF unchanged(prev, cur, disk)
    THEN IF disk \notin DOMAIN states
         THEN [KeyError |-> TRUE, states |-> states, verdict |-> "unchanged"]
         ELSE [KeyError |-> FALSE, verdict |-> "unchanged",
               states |-> IF states[disk].state # IDLE \/ states[disk].state # POWEROFF
                          THEN Put(states, disk, DiskState(IDLE, t))
                          ELSE states]
    ELSE [KeyError |-> FALSE, verdict |-> "changed",
          states |-> IF disk \notin DOMAIN states \/ states[disk].state # ACTIVE
                     THEN Put(states, disk, DiskState(ACTIVE, t))
                     ELSE states]

\* compare() that stamps a disk entering ACTIVE with 0 instead of the time
compare_disk_active_unstamped(prev, cur, states, disk, t) ==
    IF unchanged(prev, cur, disk)
    THEN IF disk \notin DOMAIN states
         THEN [KeyError |-> TRUE, states |-> states, verdict |-> "unchanged"]
         ELSE [KeyError |-> FALSE, verdict |-> "unchanged",
               states |-> IF states[disk].state # IDLE /\ states[disk].state # POWEROFF
                          THEN Put(states, disk, DiskState(IDLE, t))
                          ELSE states]
    ELSE [KeyError |-> FALSE, verdict |-> "changed",
          states |-> IF disk \notin DOMAIN states \/ states[disk].state # ACTIVE
                     THEN Put(states, disk, DiskState(ACTIVE, 0))
                     ELSE states]

\* compare() whose else branch wakes only IDLE disks
compare_disk_idle_only(prev, cur, states, disk, t) ==
    IF unchanged(prev, cur, disk)
    THEN IF disk \notin DOMAIN states
         THEN [KeyError |-> TRUE, states |-> states, verdict |-> "unchanged"]
         ELSE [KeyError |-> FALSE, verdict |-> "unchanged",
               states |-> IF states[disk].state # IDLE /\ states[disk].state # POWEROFF
                          THEN Put(states, disk, DiskState(IDLE, t))
                          ELSE states]
    ELSE [KeyError |-> FALSE, verdict |-> "changed",
          states |-> IF disk \notin DOMAIN states \/ states[disk].state = IDLE
                     THEN Put(states, disk, DiskState(ACTIVE, t))
                     ELSE states]

\* compare() whose second branch rewrites existing records only: a disk seen
\* for the first time gets no record
compare_disk_no_first_record(prev, cur, states, disk, t) ==
    IF unchanged(prev, cur, disk)
    THEN IF disk \notin DOMAIN states
         THEN [KeyError |-> TRUE, states |-> states, verdict |-> "unchanged"]
         ELSE [KeyError |-> FALSE, verdict |-> "unchanged",
               states |-> IF states[disk].state # IDLE /\ states[disk].state # POWEROFF
                          THEN Put(states, disk, DiskState(IDLE, t))
                          ELSE states]
    ELSE [KeyError |-> FALSE, verdict |-> "changed",
          states |-> IF disk \in DOMAIN states /\ states[disk].state # ACTIVE
                     THEN Put(states, disk, DiskState(ACTIVE, t))
                     ELSE states]

\* one iteration of the for loop of compare() in src/src/disks-poweroff.py;
\* self.disk_states[disk] in the first branch raises KeyError without a record
compare_disk(prev, cur, states, disk, t) ==
    IF unchanged(prev, cur, disk)
    THEN IF disk \notin DOMAIN states
         THEN [KeyError |-> TRUE, states |-> states, verdict |-> "unchanged"]
         ELSE [KeyError |-> FALSE, verdict |-> "unchanged",
               states |-> IF states[disk].state # IDLE /\ states[disk].state # POWEROFF
                          THEN Put(states, disk, DiskState(IDLE, t))
                          ELSE states]
    ELSE [KeyError |-> FALSE, verdict |-> "changed",
          states |-> IF disk \notin DOMAIN states \/ states[disk].state # ACTIVE
                     THEN Put(states, disk, DiskState(ACTIVE, t))
                     ELSE states]

\* self.disk_statuses.get(disk, [None, None])[0]
status_get(states, disk) ==
    IF disk \in DOMAIN states THEN states[disk].state ELSE "None"

\* one iteration of the for loop of compare() in src/disks-poweroff.py
legacy_compare_disk(prev, cur, states, disk, t) ==
    IF legacy_unchanged(prev, cur, disk)
    THEN [KeyError |-> FALSE, verdict |-> "unchanged",
          states |-> IF status_get(states, disk) # IDLE /\ status_get(states, disk) # POWEROFF
                     THEN Put(states, disk, DiskState(IDLE, t))
                     ELSE states]
    ELSE [KeyError |-> FALSE, verdict |-> "changed",
          states |-> Put(states, disk, DiskState(ACTIVE, t))]

\* for disk in self.disks: ... ; an exception ends the loop
RECURSIVE compare_loop(_, _, _, _, _, _, _)
compare_loop(is_legacy, prev, cur, rest, states, verdicts, t) ==
    IF rest = <<>> THEN [KeyError |-> FALSE, states |-> states, verdict |-> verdicts]
    ELSE LET step == IF is_legacy
                     THEN legacy_compare_disk(prev, cur, states, Head(rest), t)
                     ELSE compare_disk(prev, cur, states, Head(rest), t)
         IN  IF step.KeyError
             THEN [KeyError |-> TRUE, states |-> step.states, verdict |-> verdicts]
             ELSE compare_loop(is_legacy, prev, cur, Tail(rest), step.states,
                               Put(verdicts, Head(rest), step.verdict), t)

\* the loop as a log in which a record is written before the if has
\* classified the disk
RECURSIVE compare_events_write_first(_, _, _, _, _, _)
compare_events_write_first(is_legacy, prev, cur, rest, states, t) ==
    IF rest = <<>> THEN <<>>
    ELSE LET step == IF is_legacy
                     THEN legacy_compare_disk(prev, cur, states, Head(rest), t)
                     ELSE compare_disk(prev, cur, states, Head(rest), t)
         IN  (IF ~step.KeyError /\ step.states # states
              THEN <<Event("transition", Head(rest))>> ELSE <<>>)
             \o <<Event("classify", Head(rest))>>
             \o (IF step.KeyError THEN <<>>
                 ELSE compare_events_write_first(is_legacy, prev, cur, Tail(rest),
                                                 step.states, t))

\* the same loop as a log: each disk is classified by the if, then its
\* record is written when the branch taken assigns it
RECURSIVE compare_events(_, _, _, _, _, _)
compare_events(is_legacy, prev, cur, rest, states, t) ==
    IF rest = <<>> THEN <<>>
    ELSE LET step == IF is_legacy
                     THEN legacy_compare_disk(prev, cur, states, Head(rest), t)
                     ELSE compare_disk(prev, cur, states, Head(rest), t)
         IN  <<Event("classify", Head(rest))>>
             \o (IF step.KeyError THEN <<>>
                 ELSE (IF step.states # states
                       THEN <<Event("transition", Head(rest))>> ELSE <<>>)
                      \o compare_events(is_legacy, prev, cur, Tail(rest), step.states, t))

compare ==
    /\ pc = "compare"
    /\ LET done == compare_loop(legacy, diskstats_prev, diskstats, disks, disk_states,
                                EmptyDict, now)
       IN  /\ disk_states' = done.states
           /\ verdict' = done.verdict
           /\ pc' = IF done.KeyError THEN "crashed" ELSE "poweroff"
    /\ events' = events \o compare_events(legacy, diskstats_prev, diskstats, disks,
                                          disk_states, now)
    /\ UNCHANGED <<legacy, listing, config, disks, timeout, polling_interval, diskstats,
                   diskstats_prev, now, issued, hdparm_failed, source, steady>>

\* -------------------------------------------------------------- poweroff
\* exit statuses of smartctl -n standby (0: awake, 2: asleep or failed, 4: a
\* failure bit) and of hdparm -yY
SmartctlRcs == {0, STANDBY_RC, 4}
HdparmRcs == {0, 1}

\* the condition of poweroff() without its time test
eligible_no_timeout(states, disk, t, tmo) ==
    /\ disk \in DOMAIN states
    /\ states[disk].state = IDLE \/ states[disk].state = POWEROFF

\* the condition without its test of the state label: the age of the record
\* alone decides
eligible_any_state(states, disk, t, tmo) ==
    /\ disk \in DOMAIN states
    /\ t - states[disk].timestamp >= tmo

\* the condition of the if in poweroff() of src/src/disks-poweroff.py
eligible(states, disk, t, tmo) ==
    /\ disk \in DOMAIN states
    /\ states[disk].state = IDLE \/ states[disk].state = POWEROFF
    /\ t - states[disk].timestamp >= tmo

\* the same in src/disks-poweroff.py: a missing record reads as ["ACTIVE", now]
legacy_eligible(states, disk, t, tmo) ==
    LET disk_status == IF disk \in DOMAIN states THEN states[disk] ELSE DiskState(ACTIVE, t)
    IN  /\ disk_status.state = IDLE \/ disk_status.state = POWEROFF
        /\ t - disk_status.timestamp >= tmo

Command(cmd, disk, rc) == [cmd |-> cmd, disk |-> disk, rc |-> rc]

\* the test of the smartctl exit status turned round
run_commands_inverted(disk, smartctl_rc, hdparm_rc) ==
    IF smartctl_rc = STANDBY_RC
    THEN <<Command("smartctl", disk, smartctl_rc), Command("hdparm", disk, hdparm_rc)>>
    ELSE <<Command("smartctl", disk, smartctl_rc)>>

\* the commands run for one eligible disk: hdparm only when smartctl did not
\* exit with 2
run_commands(disk, smartctl_rc, hdparm_rc) ==
    IF smartctl_rc # STANDBY_RC
    THEN <<Command("smartctl", disk, smartctl_rc), Command("hdparm", disk, hdparm_rc)>>
    ELSE <<Command("smartctl", disk, smartctl_rc)>>

\* poweroff() that, when hdparm fails, starts the idle period again instead
\* of marking the disk POWEROFF
poweroff_disk_failure_restarts(is_legacy, states, disk, t, tmo, smartctl_rc, hdparm_rc) ==
    IF (IF is_legacy THEN legacy_eligible(states, disk, t, tmo)
                     ELSE eligible(states, disk, t, tmo))
    THEN [states |-> IF smartctl_rc # STANDBY_RC /\ hdparm_rc # 0
                     THEN [states EXCEPT ![disk] = DiskState(IDLE, t)]
                     ELSE [states EXCEPT ![disk].state = POWEROFF],
          cmds |-> run_commands(disk, smartctl_rc, hdparm_rc)]
    ELSE [states |-> states, cmds |-> <<>>]

\* poweroff() writing a new record at the forced transition, as compare() does
poweroff_disk_new_record(is_legacy, states, disk, t, tmo, smartctl_rc, hdparm_rc) ==
    IF (IF is_legacy THEN legacy_eligible(states, disk, t, tmo)
                     ELSE eligible(states, disk, t, tmo))
    THEN [states |-> [states EXCEPT ![disk] = DiskState(POWEROFF, t)],
          cmds |-> run_commands(disk, smartctl_rc, hdparm_rc)]
    ELSE [states |-> states, cmds |-> <<>>]

\* one iteration of the for loop of poweroff(): the state label is set, the
\* timestamp is kept
poweroff_disk(is_legacy, states, disk, t, tmo, smartctl_rc, hdparm_rc) ==
    IF (IF is_legacy THEN legacy_eligible(states, disk, t, tmo)
                     ELSE eligible(states, disk, t, tmo))
    THEN [states |-> [states EXCEPT ![disk].state = POWEROFF],
          cmds |-> run_commands(disk, smartctl_rc, hdparm_rc)]
    ELSE [states |-> states, cmds |-> <<>>]

RECURSIVE poweroff_loop(_, _, _, _, _, _, _)
poweroff_loop(is_legacy, rest, states, log, t, tmo, rcs) ==
    IF rest = <<>> THEN [states |-> states, cmds |-> log]
    ELSE LET step == poweroff_disk(is_legacy, states, Head(rest), t, tmo,
                                   Head(rcs)[1], Head(rcs)[2])
         IN  poweroff_loop(is_legacy, Tail(rest), step.states, log \o step.cmds, t, tmo,
                           Tail(rcs))

\* the commands of the log as events of the cycle
command_events(log) ==
    [k \in 1..Len(log) |->
        Event(IF log[k].cmd = "smartctl" THEN "query" ELSE "spindown", log[k].disk)]

poweroff ==
    /\ pc = "poweroff"
    /\ \E rcs \in [1..Len(disks) -> SmartctlRcs \X HdparmRcs] :
         LET done == poweroff_loop(legacy, disks, disk_states, <<>>, now, timeout, rcs)
         IN  /\ disk_states' = done.states
             /\ issued' = done.cmds
             /\ events' = events \o command_events(done.cmds)
    /\ pc' = "sleep"
    /\ UNCHANGED <<legacy, listing, config, disks, timeout, polling_interval, diskstats,
                   diskstats_prev, now, verdict, hdparm_failed, source, steady>>

\* ------------------------------------------------------------------- run
\* time.sleep(self.polling_interval): ValueError for a negative interval;
\* the clock moves on by the interval or a little more
sleep ==
    /\ pc = "sleep"
    /\ IF polling_interval < 0
       THEN pc' = "crashed" /\ now' = now
       ELSE /\ \E jitter \in 0..MaxJitter :
                 /\ now + polling_interval + jitter <= MaxTime
                 /\ now' = now + polling_interval + jitter
            /\ pc' = "poll"
    /\ UNCHANGED <<legacy, listing, config, disks, timeout, polling_interval, diskstats,
                   diskstats_prev, disk_states, verdict, issued, hdparm_failed,
                   source, events, steady>>

Next ==
    \/ DisksPowerOff_init
    \/ poll
    \/ compare
    \/ poweroff
    \/ sleep

Spec == Init /\ [][Next]_vars

\* ------------------------------------------------- the daemon running on
\* The daemon with no horizon on the clock, for what it does in the long run.
\* The configurations are those with which the loop runs and whose timeout
\* fits the clock of the model.
LiveConfigs ==
    { ConfigOf(Section(sda, <<"2">>, <<"1">>)) }

\* the latest reading of the clock before the origin of time is moved
LiveTime == 3

InitLive == Init /\ config \in LiveConfigs

\* the system stops changing the counters of a disk that is in the current
\* snapshot: from now on every read has its line with the same two tokens
settle ==
    /\ pc \in {"poll", "compare", "poweroff", "sleep"}
    /\ \E d \in Range(disks) \ steady :
         /\ d \in DOMAIN diskstats
         /\ steady' = steady \cup {d}
    /\ UNCHANGED <<legacy, listing, config, disks, timeout, polling_interval, diskstats,
                   diskstats_prev, disk_states, now, pc, verdict, issued, hdparm_failed,
                   source, events>>

\* poll() of a counter source that is readable, every line well formed, and
\* that shows the settled disks as they were
poll_steady ==
    /\ poll
    /\ pc' = "compare"
    /\ \A d \in steady : d \in DOMAIN diskstats' /\ diskstats'[d] = diskstats[d]

\* time.time() only enters the program in differences with timestamps, so the
\* clock is kept within LiveTime by moving the origin of time forward; a
\* timestamp that falls before the new origin is at least LiveTime old, no
\* less than the timeout of LiveConfigs, and is kept at the origin
rebase(states, over) ==
    [d \in DOMAIN states |->
        [states[d] EXCEPT !.timestamp = IF @ > over THEN @ - over ELSE 0]]

\* time.sleep(self.polling_interval) with the clock running on
sleep_on ==
    /\ pc = "sleep"
    /\ IF polling_interval < 0
       THEN pc' = "crashed" /\ now' = now /\ disk_states' = disk_states
       ELSE /\ \E jitter \in 0..MaxJitter :
                 LET t == now + polling_interval + jitter
                     over == IF t > LiveTime THEN t - LiveTime ELSE 0
                 IN  /\ now' = t - over
                     /\ disk_states' = rebase(disk_states, over)
            /\ pc' = "poll"
    /\ UNCHANGED <<legacy, listing, config, disks, timeout, polling_interval, diskstats,
                   diskstats_prev, verdict, issued, hdparm_failed, source, events, steady>>

NextLive ==
    \/ DisksPowerOff_init
    \/ poll_steady
    \/ compare
    \/ poweroff
    \/ sleep_on
    \/ settle

\* run() is one sequential loop: the step it stands at is always taken in
\* the end, every external command returning
SpecLive ==
    /\ InitLive
    /\ [][NextLive]_vars
    /\ WF_vars(DisksPowerOff_init)
    /\ WF_vars(poll_steady)
    /\ WF_vars(compare)
    /\ WF_vars(poweroff)
    /\ WF_vars(sleep_on)

TypeOK ==
    /\ pc \in {"init", "poll", "compare", "poweroff", "sleep", "crashed"}
    /\ now \in 0..MaxTime

\* ------------------------------------------------------------ properties
Tracked == Range(disks)

StateOf(d) == disk_states[d].state
Resting(d) == d \in DOMAIN disk_states /\ StateOf(d) \in {IDLE, POWEROFF}

Entries(log, cmd, d) == {k \in 1..Len(log) : log[k].cmd = cmd /\ log[k].disk = d}
QueryCount(log, d) == Cardinality(Entries(log, "smartctl", d))
SpinDownCount(log, d) == Cardinality(Entries(log, "hdparm", d))

\* compare() has run in this cycle
Compared == pc \in {"poweroff", "sleep"}

\* both snapshots exist and carry the same two tokens
SameTokens(d) ==
    /\ d \in DOMAIN diskstats_prev
    /\ d \in DOMAIN diskstats
    /\ diskstats_prev[d] = diskstats[d]

\* C1: after compare(), a tracked disk is classified unchanged exactly when
\* it has an entry in the previous and in the current snapshot map and the two
\* token pairs are equal; in every other case it is classified changed.
C1_Classification ==
    Compared =>
        \A d \in Tracked :
            /\ d \in DOMAIN verdict
            /\ verdict[d] = (IF SameTokens(d) THEN "unchanged" ELSE "changed")

\* a cycle with one disk unchanged and another one changed because it is
\* missing from the current read
C1_Witness ==
    /\ Compared
    /\ \E d \in Tracked : verdict[d] = "unchanged"
    /\ \E d \in Tracked : /\ verdict[d] = "changed"
                          /\ d \in DOMAIN diskstats_prev
                          /\ d \notin DOMAIN diskstats

\* the compare() step classifies d as changed
ChangedNow(d) == pc = "compare" /\ d \in DOMAIN verdict' /\ verdict'[d] = "changed"
UnchangedNow(d) == pc = "compare" /\ d \in DOMAIN verdict' /\ verdict'[d] = "unchanged"

\* C2: a compare() that classifies an IDLE or POWEROFF disk unchanged leaves
\* its state and timestamp as they were; and as long as no compare()
\* classifies it changed, every step keeps the disk IDLE or POWEROFF with the
\* same timestamp while the clock does not go back, so that time-in-state
\* accumulates.
C2_IdleIdempotent ==
    [][\A d \in DOMAIN disk_states :
         /\ (Resting(d) /\ UnchangedNow(d)) => disk_states'[d] = disk_states[d]
         /\ (Resting(d) /\ ~ChangedNow(d)) =>
                /\ d \in DOMAIN disk_states'
                /\ disk_states'[d].state \in {IDLE, POWEROFF}
                /\ disk_states'[d].timestamp = disk_states[d].timestamp
                /\ now' >= now]_vars

\* compare() has just found unchanged a disk that entered IDLE at least two
\* seconds ago, so that it was IDLE or POWEROFF before this compare()
C2_Witness ==
    /\ pc = "poweroff"
    /\ \E d \in Tracked :
         /\ verdict[d] = "unchanged"
         /\ StateOf(d) \in {IDLE, POWEROFF}
         /\ now - disk_states[d].timestamp >= 2

\* C3: a compare() that classifies an IDLE or POWEROFF disk changed makes it
\* ACTIVE with the current time as its timestamp, and no smartctl or hdparm
\* is run for a disk classified changed in that cycle.
C3_ChangedWakes ==
    [][/\ \A d \in DOMAIN disk_states :
            (Resting(d) /\ ChangedNow(d)) => disk_states'[d] = DiskState(ACTIVE, now)
       /\ \A d \in DOMAIN verdict' :
            verdict'[d] = "changed" =>
                QueryCount(issued', d) = 0 /\ SpinDownCount(issued', d) = 0]_vars

\* a disk whose spin-down was attempted in the previous cycle (so it was
\* POWEROFF) is classified changed and ends the cycle ACTIVE, untouched
C3_Witness ==
    /\ pc = "sleep"
    /\ \E d \in hdparm_failed :
         /\ verdict[d] = "changed"
         /\ disk_states[d] = DiskState(ACTIVE, now)

\* the poweroff() step finds d eligible: IDLE or POWEROFF for timeout seconds
Due(d) == Resting(d) /\ now - disk_states[d].timestamp >= timeout

\* C4: in every cycle in which a tracked disk has been IDLE or POWEROFF for
\* at least timeout seconds, poweroff() runs the standby query for it exactly
\* once; a disk classified changed in the cycle is not queried.
C4_ExactlyOneQuery ==
    [][pc = "poweroff" =>
         \A d \in Tracked :
            /\ Due(d) => QueryCount(issued', d) = 1
            /\ (d \in DOMAIN verdict /\ verdict[d] = "changed") => QueryCount(issued', d) = 0]_vars

\* C5: in the log of a cycle every hdparm follows directly a smartctl for the
\* same disk that did not exit with 2, every such smartctl is followed
\* directly by the hdparm for its disk, and after poweroff() every disk that
\* was queried is POWEROFF, whatever the query returned; every disk that is
\* IDLE or POWEROFF for timeout seconds has been queried and is POWEROFF.
C5_SpinDownIffAwake ==
    /\ \A k \in 1..Len(issued) :
         /\ issued[k].cmd = "hdparm" =>
                /\ k > 1
                /\ issued[k - 1].cmd = "smartctl"
                /\ issued[k - 1].disk = issued[k].disk
                /\ issued[k - 1].rc # STANDBY_RC
         /\ (issued[k].cmd = "smartctl" /\ issued[k].rc # STANDBY_RC) =>
                /\ k < Len(issued)
                /\ issued[k + 1] = Command("hdparm", issued[k].disk, issued[k + 1].rc)
         /\ (issued[k].cmd = "smartctl" /\ issued[k].rc = STANDBY_RC /\ k < Len(issued)) =>
                issued[k + 1].cmd = "smartctl"
    /\ \A k \in 1..Len(issued) :
         /\ issued[k].disk \in DOMAIN disk_states
         /\ StateOf(issued[k].disk) = POWEROFF
    /\ pc = "sleep" =>
         \A d \in Tracked : Due(d) => StateOf(d) = POWEROFF /\ QueryCount(issued, d) >= 1

\* one cycle with a disk found asleep (no hdparm) and a disk found awake
\* (hdparm run), both POWEROFF afterwards
C5_Witness ==
    /\ pc = "sleep"
    /\ \E k \in 1..Len(issued) : issued[k].cmd = "smartctl" /\ issued[k].rc = STANDBY_RC
    /\ \E k \in 1..Len(issued) : issued[k].cmd = "hdparm"

\* C6: a smartctl or hdparm is run for a disk only if, when poweroff() looks
\* at it, the disk has a record, is IDLE or POWEROFF, was classified unchanged
\* in this cycle and now - timestamp >= timeout; ACTIVE disks and disks without
\* a record are never touched.
C6_OnlyAfterTimeout ==
    [][\A k \in 1..Len(issued') :
         issued' # issued =>
            /\ pc = "poweroff"
            /\ Due(issued'[k].disk)
            /\ verdict[issued'[k].disk] = "unchanged"
            /\ now' - disk_states'[issued'[k].disk].timestamp >= timeout]_vars

\* a disk is queried as soon as its idle time equals the timeout
C6_Witness ==
    /\ pc = "sleep"
    /\ timeout > 0
    /\ \E d \in Tracked :
         /\ QueryCount(issued, d) > 0
         /\ now - disk_states[d].timestamp = timeout
    /\ \E d \in Tracked : StateOf(d) = ACTIVE /\ QueryCount(issued, d) = 0

\* C7: a failing hdparm changes nothing in the state machine: the disk is
\* POWEROFF with its old timestamp after poweroff(), as after a success, the
\* daemon goes on to sleep, and in the next cycle, if the disk is still
\* unchanged, smartctl is run for it again (and hdparm again unless smartctl
\* exits with 2): the retry comes with the next poll, not after another
\* timeout.
C7_FailedSpinDownRetried ==
    [][pc = "poweroff" =>
         /\ \A d \in FailedSpinDowns(issued') :
              /\ disk_states'[d] = DiskState(POWEROFF, disk_states[d].timestamp)
              /\ pc' = "sleep"
         /\ \A d \in hdparm_failed :
              verdict[d] = "unchanged" =>
                 /\ QueryCount(issued', d) >= 1
                 /\ \A k \in Entries(issued', "smartctl", d) :
                       issued'[k].rc # STANDBY_RC =>
                          issued'[k + 1].cmd = "hdparm" /\ issued'[k + 1].disk = d]_vars

\* the spin-down of a disk failed when its timeout had just elapsed and is
\* attempted again one second later
C7_Witness ==
    /\ pc = "sleep"
    /\ timeout > 1
    /\ \E d \in hdparm_failed :
         /\ SpinDownCount(issued, d) >= 1
         /\ now - disk_states[d].timestamp = timeout + 1

\* C8: the timestamp of a disk's record never decreases from one step to the
\* next (the clock of the model never goes back), and a record is never
\* removed.
C8_TimestampMonotone ==
    [][/\ now' >= now
       /\ \A d \in DOMAIN disk_states :
            /\ d \in DOMAIN disk_states'
            /\ disk_states'[d].timestamp >= disk_states[d].timestamp]_vars

\* a disk that became idle, was put to sleep and woke up: its record has
\* carried three timestamps, the last one the current time
C8_Witness ==
    /\ pc = "poweroff"
    /\ \E d \in hdparm_failed :
         /\ StateOf(d) = ACTIVE
         /\ disk_states[d].timestamp = now
         /\ now >= 3

\* C9: a compare() that classifies an ACTIVE disk changed leaves its record,
\* state and timestamp, as it was.
C9_ActiveNotRestamped ==
    [][\A d \in DOMAIN disk_states :
         (StateOf(d) = ACTIVE /\ ChangedNow(d)) => disk_states'[d] = disk_states[d]]_vars

\* the names of the configuration, normalized, that /dev lists as disks
ConfiguredNames == {normalize_name(c) : c \in Range(configured_disks(config, listing))}
EnumeratedDisks == {dev \in Range(listing) : is_physical_disk(dev)}
TrackedDeviceSet == ConfiguredNames \cap EnumeratedDisks

\* C10: __init__ sets self.disks to exactly the normalized configured names
\* that /dev lists, and afterwards neither self.disks nor the configuration
\* and /dev listing it was computed from ever change; the keys of both
\* snapshot maps and of the state map are among the tracked disks, and so is
\* the disk of every command run.
C10_TrackedSetOnly ==
    [][/\ pc = "init" => Range(disks') = TrackedDeviceSet
       /\ pc # "init" => disks' = disks
       /\ config' = config /\ listing' = listing
       /\ DOMAIN diskstats' \subseteq Range(disks')
       /\ DOMAIN diskstats_prev' \subseteq Range(disks')
       /\ DOMAIN disk_states' \subseteq Range(disks')
       /\ \A k \in 1..Len(issued') : issued'[k].disk \in Range(disks')]_vars

\* sdc is configured but not in /dev; sda1 is in every read of the counter
\* source: neither is recorded while the tracked disks are polled and
\* spun down
C10_Witness ==
    /\ pc = "sleep"
    /\ sdc \in ConfiguredNames
    /\ sdc \notin Range(disks)
    /\ DOMAIN diskstats = {sda, sdb}
    /\ DOMAIN diskstats_prev = {sda, sdb}
    /\ DOMAIN disk_states = {sda, sdb}
    /\ Len(issued) > 0

\* the read of this cycle held a line with fewer than ten fields
Malformed == \E k \in 1..Len(source) : source[k].IndexError

\* the tracked disks on the well-formed lines of the read of this cycle
WellFormedTracked ==
    {source[k].device_name : k \in {j \in 1..Len(source) : ~source[j].IndexError}}
        \cap Tracked

\* C11: a line of the counter source with fewer than ten fields does not end
\* the daemon or abort the cycle: the tracked disks on the other, well-formed
\* lines of the same read are recorded in the current snapshot, and compare()
\* and poweroff() run on it.
C11_MalformedLineSkipped ==
    Malformed =>
        /\ pc # "crashed"
        /\ WellFormedTracked \subseteq DOMAIN diskstats

\* C12: a tracked disk with no line in the read of this cycle is classified
\* changed by compare(), which does not raise, and its record is ACTIVE after
\* compare() and still after poweroff(), whatever it was before; the next
\* poll() then leaves it without a previous snapshot, and a disk without a
\* previous snapshot is classified changed and made ACTIVE again, whatever its
\* counters: it is IDLE no earlier than two cycles after the read that missed it.
C12_TransientAbsence ==
    [][\A d \in Range(disks) :
        /\ (pc = "compare" /\ d \notin DOMAIN diskstats) =>
              /\ pc' = "poweroff"
              /\ d \in DOMAIN verdict' /\ verdict'[d] = "changed"
              /\ d \in DOMAIN disk_states' /\ disk_states'[d].state = ACTIVE
        /\ (pc = "poweroff" /\ d \notin DOMAIN diskstats) =>
              /\ pc' = "sleep"
              /\ d \in DOMAIN disk_states' /\ disk_states'[d].state = ACTIVE
        /\ (pc = "poll" /\ d \notin DOMAIN diskstats) => d \notin DOMAIN diskstats_prev'
        /\ (pc = "compare" /\ d \notin DOMAIN diskstats_prev) =>
              /\ d \in DOMAIN verdict' /\ verdict'[d] = "changed"
              /\ d \in DOMAIN disk_states' /\ disk_states'[d].state = ACTIVE
        /\ (pc = "poweroff" /\ d \notin DOMAIN diskstats_prev) =>
              d \in DOMAIN disk_states' /\ disk_states'[d].state = ACTIVE]_vars

\* a later cycle in which a disk is read again after a read that missed
\* it: it has a current but no previous snapshot and ends the cycle ACTIVE
C12_Witness ==
    /\ pc = "sleep"
    /\ now > 0
    /\ \E d \in Tracked :
        /\ d \in DOMAIN diskstats
        /\ d \notin DOMAIN diskstats_prev
        /\ verdict[d] = "changed"
        /\ StateOf(d) = ACTIVE

\* the configuration file has no [disks-poweroff] section
NoSection == PROGRAM_NAME \notin DOMAIN config

\* C13: starting with a configuration that has no "disks-poweroff" section is
\* not fatal: once __init__ is over the daemon stands at the poll loop, the
\* tracked disks are all the disks /dev lists, timeout is 1800 and
\* polling_interval is 10.
C13_MissingSectionDefaults ==
    (NoSection /\ pc # "init") =>
        /\ pc # "crashed"
        /\ Range(disks) = EnumeratedDisks
        /\ timeout = DEFAULT_TIMEOUT
        /\ polling_interval = DEFAULT_POLLING_INTERVAL

\* the option is present in the section and Python's int() accepts its text
Parses(option) ==
    /\ option \in DOMAIN config[PROGRAM_NAME]
    /\ ~int(config[PROGRAM_NAME][option]).ValueError

\* C14: with the section present, __init__ sets timeout and polling_interval
\* each on its own: to the integer the option's text parses to, and to the
\* default, 1800 for timeout and 10 for polling_interval, when the option is
\* absent or its text is not an integer; in every case startup goes on to the
\* poll loop.
C14_NumericOptions ==
    [][(pc = "init" /\ ~NoSection) =>
        /\ pc' = "poll"
        /\ timeout' = IF Parses(TIMEOUT)
                      THEN int(config[PROGRAM_NAME][TIMEOUT]).value
                      ELSE DEFAULT_TIMEOUT
        /\ polling_interval' = IF Parses(POLLING_INTERVAL)
                               THEN int(config[PROGRAM_NAME][POLLING_INTERVAL]).value
                               ELSE DEFAULT_POLLING_INTERVAL]_vars

\* the same statement of the program under src/src alone
C14_CurrentProgram ==
    [][(pc = "init" /\ ~NoSection /\ ~legacy) =>
        /\ pc' = "poll"
        /\ timeout' = IF Parses(TIMEOUT)
                      THEN int(config[PROGRAM_NAME][TIMEOUT]).value
                      ELSE DEFAULT_TIMEOUT
        /\ polling_interval' = IF Parses(POLLING_INTERVAL)
                               THEN int(config[PROGRAM_NAME][POLLING_INTERVAL]).value
                               ELSE DEFAULT_POLLING_INTERVAL]_vars

\* the phase an event of the cycle belongs to
Phase(e) ==
    CASE e.kind = "read" -> 1
      [] e.kind = "classify" -> 2
      [] e.kind = "transition" -> 3
      [] OTHER -> 4

PowerAction(e) == e.kind \in {"query", "spindown"}

\* C15 as stated: within one cycle every snapshot entry is read before any
\* disk is classified, every disk is classified before any disk's record is
\* rewritten by compare(), and every such rewrite precedes every standby
\* query and spin-down: the phases of the events of a cycle never decrease.
C15_PhaseOrder ==
    \A i, j \in 1..Len(events) : i < j => Phase(events[i]) <= Phase(events[j])

\* the order of the events of a cycle that the loops of the code give
EventOrder ==
    \A i, j \in 1..Len(events) :
        /\ (i < j /\ events[j].kind = "read") => events[i].kind = "read"
        /\ (i < j /\ PowerAction(events[i])) => PowerAction(events[j])
        /\ events[j].kind = "transition" =>
              /\ j > 1
              /\ events[j - 1] = Event("classify", events[j].disk)

\* compare() and poweroff() leave both snapshot maps as poll() made them
SnapshotsKept ==
    [][(pc \in {"compare", "poweroff"}) =>
        (diskstats' = diskstats /\ diskstats_prev' = diskstats_prev)]_vars

\* C15, amended: within one cycle every snapshot entry is read before any
\* disk is classified; compare() classifies the disks one after another and
\* rewrites a disk's record right after classifying that disk, before the next
\* disk is classified; every classification and every rewrite by compare()
\* precedes every standby query and spin-down; and neither compare() nor
\* poweroff() changes a snapshot map, so none of them sees a later read.
C15_PhaseOrderPerDisk == []EventOrder /\ SnapshotsKept

\* a cycle in which compare() rewrote the record of one disk, then classified
\* another, and poweroff() then queried a disk
C15_Witness ==
    /\ pc = "sleep"
    /\ \E i, j, k \in 1..Len(events) :
        /\ i < j /\ j < k
        /\ events[i].kind = "transition"
        /\ events[j].kind = "classify"
        /\ events[j].disk # events[i].disk
        /\ events[k].kind = "query"

\* the tracked disks with a line in the read of this cycle
ReadNow == {source[k].device_name : k \in 1..Len(source)} \cap Tracked

\* the two tokens the last line of disk d in the read of this cycle carries
TokensNow(d) ==
    LET k == CHOOSE j \in 1..Len(source) :
                 /\ source[j].device_name = d
                 /\ \A l \in (j + 1)..Len(source) : source[l].device_name # d
    IN  DiskSectors(source[k].sectors_read, source[k].sectors_written)

\* C16: when poll() returns, the previous snapshot map is the current map as
\* it was just before the call, and the new current map holds exactly the
\* tracked disks that have a line in this read, each with the two tokens read
\* now: an entry never outlives the poll() after the one that read it.
C16_SnapshotGenerations ==
    [][(pc = "poll" /\ pc' = "compare") =>
        /\ diskstats_prev' = diskstats
        /\ DOMAIN diskstats' = ReadNow'
        /\ \A d \in ReadNow' : diskstats'[d] = TokensNow(d)']_vars

\* a third poll() at least: a disk read two cycles ago and last cycle is
\* missing from this read and from the current map, and the other disk holds
\* tokens that differ from those of the cycle before
C16_Witness ==
    /\ pc = "compare"
    /\ now > 0
    /\ \E d, e \in Tracked :
        /\ d \in DOMAIN diskstats_prev
        /\ d \notin DOMAIN diskstats
        /\ d \in DOMAIN disk_states /\ StateOf(d) = IDLE
        /\ e \in DOMAIN diskstats_prev
        /\ e \in DOMAIN diskstats
        /\ diskstats[e] # diskstats_prev[e]

C18_RecordsExist ==
    [][/\ (pc = "compare") =>
              /\ pc' = "poweroff"
              /\ \A d \in Range(disks) :
                    (d \in DOMAIN verdict' /\ verdict'[d] = "unchanged") =>
                        d \in DOMAIN disk_states
       /\ (pc' \in {"poweroff", "sleep"}) =>
              \A d \in Range(disks') :
                  /\ d \in DOMAIN disk_states'
                  /\ disk_states'[d].state \in {ACTIVE, IDLE, POWEROFF}
       /\ DOMAIN disk_states \subseteq DOMAIN disk_states']_vars

\* the program under src/src has classified a disk unchanged and found its
\* record, while another tracked disk has had no line in any read so far
\* and has a record nevertheless
C18_Witness ==
    /\ ~legacy
    /\ pc = "poweroff"
    /\ \E d, e \in Tracked :
        /\ verdict[d] = "unchanged"
        /\ StateOf(d) = IDLE
        /\ disk_states[d].timestamp = now
        /\ e \notin DOMAIN diskstats
        /\ e \notin DOMAIN diskstats_prev
        /\ e \in DOMAIN disk_states
        /\ disk_states[e].timestamp = 0
        /\ now > 0

\* C19: whenever a disk's record says POWEROFF, the time now is at least
\* timeout later than the record's timestamp; a record says POWEROFF only
\* if the step before found it IDLE or POWEROFF, never ACTIVE or missing; and
\* the timestamp of a record that is IDLE or POWEROFF is the time at which
\* compare() made it IDLE: it is set to the time of that step and kept by
\* every step that leaves the record IDLE or POWEROFF.
C19_PoweredOffIsOverdue ==
    [][\A d \in DOMAIN disk_states' :
        /\ disk_states'[d].state = POWEROFF =>
              /\ now' - disk_states'[d].timestamp >= timeout'
              /\ Resting(d)
        /\ (disk_states'[d].state = IDLE /\ ~Resting(d)) =>
              /\ pc = "compare"
              /\ disk_states'[d].timestamp = now
        /\ (disk_states'[d].state \in {IDLE, POWEROFF} /\ Resting(d)) =>
              disk_states'[d].timestamp = disk_states[d].timestamp]_vars

\* a disk is still POWEROFF in a cycle after the one that spun it down, its
\* timestamp now older than the timeout
C19_Witness ==
    /\ pc = "poll"
    /\ timeout > 0
    /\ \E d \in Tracked :
        /\ d \in DOMAIN disk_states
        /\ StateOf(d) = POWEROFF
        /\ disk_states[d].timestamp > 0
        /\ now - disk_states[d].timestamp > timeout

\* C20: with the clock advancing, the counter source readable and every
\* command returning, a tracked disk whose line is in every read from some
\* cycle on, always with the same two tokens, is POWEROFF from some later
\* cycle on and for ever.
C20_SteadyDiskSpunDown ==
    \A d \in {sda, sdb} :
        (d \in steady) ~> [](d \in DOMAIN disk_states /\ StateOf(d) = POWEROFF)

\* a settled disk has been spun down and is still POWEROFF cycles later, the
\* origin of time moved on, after a failed spin-down in the cycle before
C20_Witness ==
    /\ pc = "sleep"
    /\ now = LiveTime
    /\ \E d \in steady :
        /\ StateOf(d) = POWEROFF
        /\ disk_states[d].timestamp = 0
        /\ QueryCount(issued, d) > 0
        /\ d \in hdparm_failed

====
